---------------------------- MODULE Spec2Model ----------------------------
(* A model of the CPM planner dashboard (Kirankkt/basic_cpm_gantt):            *)
(* the planner page (views/project_view.py), the daily checklist               *)
(* (views/checklist_view.py) and the task store (database.py).                 *)
(*                                                                             *)
(* Text is modelled as a sequence of one-character strings, so that trimming,  *)
(* case mapping, Unicode composition and splitting are computed character by   *)
(* character.  Characters outside ASCII are named by their code point:         *)
(*   "EN" U+2013 en dash      "EM" U+2014 em dash      "NBSP" U+00A0           *)
(*   "U0390" GREEK SMALL LETTER IOTA WITH DIALYTIKA AND TONOS                  *)
(*   "U0399" GREEK CAPITAL LETTER IOTA   "U03AA" CAPITAL IOTA WITH DIALYTIKA   *)
(*   "U0308" COMBINING DIAERESIS         "U0301" COMBINING ACUTE ACCENT        *)
EXTENDS Integers, Sequences, FiniteSets, TLC

VARIABLES
    projects,            \* projects table: the ids of the projects that exist
    tasksDb,             \* tasks table: project id -> its rows, ORDER BY id
    current_project_id,  \* st.session_state.current_project_id (0 = None)
    project_df,          \* st.session_state.project_df
    edited_df,           \* what st.data_editor returns: project_df plus the edits
    cpm_results,         \* st.session_state.cpm_results (<<>> = None)
    msg,                 \* the st.error shown by the current run ("none" if none)
    dangling,            \* the handler's local `dangling` ({} in a run without a press)
    pressed,             \* the normalised table of this run's button press (<<>> = no press)
    cpm_called,          \* TRUE iff this run invoked calculate_cpm
    cpm_arg,             \* the table handed to calculate_cpm by this run
    gantt_df,            \* the Gantt bars rendered by this run
    generations,         \* the layers of the network diagram rendered by this run
    edits,               \* number of table edits made so far in the session
    checklist_pid,       \* checklist: the project picked (0 = page not rendered)
    rel_day,             \* checklist: schedule day of today (0 = page not rendered)
    checklist_src,       \* checklist: the project's rows when the query ran
    today_df,            \* checklist: the rows the query returned
    nIn, nOut1, nOut2, nStep  \* normaliser applied to nIn once and twice

vars == <<projects, tasksDb, current_project_id, project_df, edited_df, cpm_results, msg,
          dangling, pressed, cpm_called, cpm_arg, gantt_df, generations, edits,
          checklist_pid, rel_day, checklist_src, today_df, nIn, nOut1, nOut2, nStep>>

appVars == <<projects, tasksDb, current_project_id, project_df, edited_df, cpm_results, msg,
             dangling, pressed, cpm_called, cpm_arg, gantt_df, generations, edits>>

checklistVars == <<checklist_pid, rel_day, checklist_src, today_df>>

normVars == <<nIn, nOut1, nOut2, nStep>>

-----------------------------------------------------------------------------
(* Bounds of the model *)

MaxLen == 3      \* longest raw identifier given to the normaliser on its own
MaxEdits == 2    \* table edits per session
MaxRows == 4     \* rows a table may grow to
MaxDay == 5      \* latest schedule day the checklist is opened on

-----------------------------------------------------------------------------
(* Missing values *)

\* NaN / None in a text column
NULL == <<"NaN">>

\* NULL in the TEXT column status (a blank Status cell of an imported file)
NULLS == "NULL"

\* NULL in the INTEGER columns es, ef
NULLI == -1

\* sequence helpers
Max(S) == CHOOSE x \in S : \A y \in S : y <= x
Min(S) == CHOOSE x \in S : \A y \in S : x <= y
Range(s) == {s[i] : i \in 1..Len(s)}

RECURSIVE Flatten(_)
Flatten(ss) == IF ss = <<>> THEN <<>> ELSE Head(ss) \o Flatten(Tail(ss))

-----------------------------------------------------------------------------
(* _normalise_id: NFKC, strip, upper, dashes *)

IsSpace(c) == c \in {" ", "NBSP"}

\* unicodedata.normalize("NFKC", s) on the characters of the model: the
\* compatibility mapping NBSP -> SPACE and the canonical composition
\* U+0399 U+0308 -> U+03AA.  (U+03AA U+0301 has no composite; U+0390 is
\* already composed.)  Combining marks occur only after U+0399 in the model.
RECURSIVE NFKC(_)
NFKC(s) ==
    IF s = <<>> THEN <<>>
    ELSE IF Len(s) >= 2 /\ s[1] = "U0399" /\ s[2] = "U0308"
         THEN <<"U03AA">> \o NFKC(SubSeq(s, 3, Len(s)))
    ELSE IF s[1] = "NBSP" THEN <<" ">> \o NFKC(Tail(s))
    ELSE <<s[1]>> \o NFKC(Tail(s))

\* str.strip()
RECURSIVE LStrip(_)
LStrip(s) == IF s # <<>> /\ IsSpace(s[1]) THEN LStrip(Tail(s)) ELSE s

RECURSIVE RStrip(_)
RStrip(s) ==
    IF s # <<>> /\ IsSpace(s[Len(s)]) THEN RStrip(SubSeq(s, 1, Len(s) - 1)) ELSE s

Strip(s) == RStrip(LStrip(s))

\* str.upper(): full case mapping, one character may become several
UpperChar(c) ==
    CASE c = "a" -> <<"A">>
      [] c = "b" -> <<"B">>
      [] c = "c" -> <<"C">>
      [] c = "x" -> <<"X">>
      [] c = "U0390" -> <<"U0399", "U0308", "U0301">>
      [] OTHER -> <<c>>

RECURSIVE Upper(_)
Upper(s) == IF s = <<>> THEN <<>> ELSE UpperChar(s[1]) \o Upper(Tail(s))

\* .replace("EN", "-").replace("EM", "-")
ReplaceDashes(s) == [i \in 1..Len(s) |-> IF s[i] \in {"EN", "EM"} THEN "-" ELSE s[i]]

_normalise_id(s) ==
    IF s = NULL THEN <<>> ELSE ReplaceDashes(Upper(Strip(NFKC(s))))

-----------------------------------------------------------------------------
(* The normaliser on its own: every raw identifier up to MaxLen characters *)

NormAlphabet == {"a", "A", " ", "EN", "-", "U0390"}

RawStrings == UNION {[1..n -> NormAlphabet] : n \in 0..MaxLen} \cup {NULL}

-----------------------------------------------------------------------------
(* Predecessor text: re.split(r"[,\s;]+", preds) and the normalised tokens *)

IsSep(c) == c \in {",", ";", " ", "NBSP"}

\* re.split on runs of separators: the pieces between the runs, an empty
\* piece included where the text starts or ends with a separator
RECURSIVE SplitFrom(_, _, _, _)
SplitFrom(s, i, cur, inSep) ==
    IF i > Len(s) THEN <<cur>>
    ELSE IF IsSep(s[i])
         THEN IF inSep THEN SplitFrom(s, i + 1, cur, TRUE)
              ELSE <<cur>> \o SplitFrom(s, i + 1, <<>>, TRUE)
    ELSE SplitFrom(s, i + 1, Append(cur, s[i]), FALSE)

ReSplit(s) == SplitFrom(s, 1, <<>>, FALSE)

RECURSIVE NormaliseAll(_)
NormaliseAll(toks) ==
    IF toks = <<>> THEN <<>> ELSE <<_normalise_id(Head(toks))>> \o NormaliseAll(Tail(toks))

NonEmpty(t) == t # <<>>

\* [_normalise_id(p) for p in re.split(...) if _normalise_id(p)], and no
\* predecessors for a missing or empty cell
ParsePreds(raw) ==
    IF raw = NULL \/ raw = <<>> THEN <<>>
    ELSE SelectSeq(NormaliseAll(ReSplit(raw)), NonEmpty)

-----------------------------------------------------------------------------
(* Validation of the edited table *)

TaskIds(df) == {df[i].id : i \in 1..Len(df)}

\* edited_df["Task ID"].apply(_normalise_id)
NormaliseIds(df) == [i \in 1..Len(df) |-> [df[i] EXCEPT !.id = _normalise_id(df[i].id)]]

\* a plausible slip: the tokens compared as typed, without normalising them
check_for_dangling_preds_raw(df) ==
    {tok \in UNION {Range(ReSplit(df[i].preds)) : i \in {j \in 1..Len(df) : df[j].preds # NULL}} :
        tok # <<>> /\ tok \notin TaskIds(df)}

_check_for_dangling_preds(df) ==
    {t \in {_normalise_id(tok) :
              tok \in UNION {Range(ReSplit(df[i].preds)) :
                               i \in {j \in 1..Len(df) : df[j].preds # NULL}}} :
        t # <<>> /\ t \notin TaskIds(df)}

\* edited_df["Task ID"].duplicated().any()
Duplicated(df) == \E i, j \in 1..Len(df) : i < j /\ df[i].id = df[j].id

\* a plausible slip: the duplicate test moved in front of the empty test
ValidateDuplicateFirst(e) ==
    IF Duplicated(e) THEN "duplicate"
    ELSE IF <<>> \in TaskIds(e) THEN "empty"
    ELSE IF _check_for_dangling_preds(e) # {} THEN "dangling"
    ELSE "valid"

\* the if / elif chain of the button handler, on the normalised table e
Validate(e) ==
    IF <<>> \in TaskIds(e) THEN "empty"
    ELSE IF Duplicated(e) THEN "duplicate"
    ELSE IF _check_for_dangling_preds(e) # {} THEN "dangling"
    ELSE "valid"

-----------------------------------------------------------------------------
(* The scheduler, calculate_cpm (cpm_logic.py).  Rows are addressed by   *)
(* their position in the table; identifiers are unique after validation. *)

PredIdx(df, i) == {j \in 1..Len(df) : df[j].id \in Range(ParsePreds(df[i].preds))}
SuccIdx(df, i) == {j \in 1..Len(df) : i \in PredIdx(df, j)}

\* Kahn layering; ties inside a generation in row order
RECURSIVE LayerFrom(_, _)
LayerFrom(df, done) ==
    LET ready(i) == i \notin done /\ PredIdx(df, i) \subseteq done
        gen == SelectSeq([i \in 1..Len(df) |-> i], ready)
    IN IF gen = <<>> THEN <<>> ELSE <<gen>> \o LayerFrom(df, done \cup Range(gen))

Layer(df) == LayerFrom(df, {})

\* the attempted topological sort leaves rows over
HasCycle(df) == Len(Flatten(Layer(df))) < Len(df)

\* forward pass over the rows in generation order; es[i] = 0 before row i is reached
RECURSIVE ForwardPass(_, _, _)
ForwardPass(df, order, es) ==
    IF order = <<>> THEN es
    ELSE LET t == Head(order)
             P == PredIdx(df, t)
             v == IF P = {} THEN 1 ELSE Max({es[p] + df[p].dur : p \in P})
         IN ForwardPass(df, Tail(order), [es EXCEPT ![t] = v])

\* backward pass over the rows in reverse generation order
RECURSIVE BackwardPass(_, _, _, _)
BackwardPass(df, order, T, lf) ==
    IF order = <<>> THEN lf
    ELSE LET t == order[Len(order)]
             S == SuccIdx(df, t)
             v == IF S = {} THEN T ELSE Min({lf[s] - df[s].dur : s \in S})
         IN BackwardPass(df, SubSeq(order, 1, Len(order) - 1), T, [lf EXCEPT ![t] = v])

\* the augmented table; the scheduler refuses a cyclic table by raising
CpmRaises(df) == HasCycle(df)

calculate_cpm(df) ==
    LET order == Flatten(Layer(df))
        zero == [i \in 1..Len(df) |-> 0]
        es == ForwardPass(df, order, zero)
        T == Max({es[i] + df[i].dur : i \in 1..Len(df)})
        lf == BackwardPass(df, order, T, zero)
    IN [i \in 1..Len(df) |->
          [id |-> df[i].id, preds |-> df[i].preds, dur |-> df[i].dur,
           status |-> df[i].status,
           ES |-> es[i], EF |-> es[i] + df[i].dur,
           LS |-> lf[i] - df[i].dur, LF |-> lf[i],
           Float |-> lf[i] - df[i].dur - es[i],
           OnCriticalPath |-> IF lf[i] - df[i].dur - es[i] = 0 THEN "Yes" ELSE "No"]]

-----------------------------------------------------------------------------
(* Rendering of the results: Gantt bars and network diagram *)

\* Dates are counted in days after the project start date: schedule day d is
\* the date start_date + (d - 1).  Start = start + (ES - 1) days,
\* Finish = Start + Duration days.
GanttStart(row) == row.ES - 1
GanttFinish(row) == GanttStart(row) + row.dur

\* a plausible slip: the critical test inverted
g_color_inverted(row) ==
    IF row.OnCriticalPath = "No" THEN <<"Critical", row.status>>
    ELSE <<"Non-Critical", row.status>>

\* GanttColor: the criticality and the status of the row
_g_color(row) ==
    IF row.OnCriticalPath = "Yes" THEN <<"Critical", row.status>>
    ELSE <<"Non-Critical", row.status>>

RenderGantt(cpm_df) ==
    [i \in 1..Len(cpm_df) |->
        [Start |-> GanttStart(cpm_df[i]), Finish |-> GanttFinish(cpm_df[i]),
         GanttColor |-> _g_color(cpm_df[i])]]

\* networkx DiGraph: nodes and edges keep their insertion order
EmptyGraph == [nodes |-> <<>>, edges |-> <<>>]

AddNode(G, n) ==
    IF n \in Range(G.nodes) THEN G ELSE [G EXCEPT !.nodes = Append(@, n)]

AddEdge(G, u, v) ==
    LET G2 == AddNode(AddNode(G, u), v)
    IN IF <<u, v>> \in Range(G2.edges) THEN G2 ELSE [G2 EXCEPT !.edges = Append(@, <<u, v>>)]

RECURSIVE AddEdges(_, _, _)
AddEdges(G, ps, v) ==
    IF ps = <<>> THEN G ELSE AddEdges(AddEdge(G, Head(ps), v), Tail(ps), v)

\* for _, row in df.iterrows(): add_node(row id); add_edge(p, row id) for each p
RECURSIVE BuildGraph(_, _, _)
BuildGraph(df, i, G) ==
    IF i > Len(df) THEN G
    ELSE BuildGraph(df, i + 1, AddEdges(AddNode(G, df[i].id), ParsePreds(df[i].preds), df[i].id))

InDegree(G, n) == Cardinality({k \in 1..Len(G.edges) : G.edges[k][2] = n})

\* G.neighbors(n), in the order the edges were added
RECURSIVE Neighbors(_, _)
Neighbors(es, n) ==
    IF es = <<>> THEN <<>>
    ELSE (IF Head(es)[1] = n THEN <<Head(es)[2]>> ELSE <<>>) \o Neighbors(Tail(es), n)

\* for child in G.neighbors(node): indegree_map[child] -= 1; at 0 it joins the next generation
RECURSIVE VisitChildren(_, _)
VisitChildren(children, acc) ==
    IF children = <<>> THEN acc
    ELSE LET c == Head(children)
             d == acc.indeg[c] - 1
         IN VisitChildren(Tail(children),
                [indeg |-> [acc.indeg EXCEPT ![c] = d],
                 next |-> IF d = 0 THEN Append(acc.next, c) ELSE acc.next])

RECURSIVE VisitGeneration(_, _, _)
VisitGeneration(G, gen, acc) ==
    IF gen = <<>> THEN acc
    ELSE VisitGeneration(G, Tail(gen), VisitChildren(Neighbors(G.edges, Head(gen)), acc))

RECURSIVE GenerationsFrom(_, _, _)
GenerationsFrom(G, gen, indeg) ==
    IF gen = <<>> THEN <<>>
    ELSE LET acc == VisitGeneration(G, gen, [indeg |-> indeg, next |-> <<>>])
         IN <<gen>> \o GenerationsFrom(G, acc.next, acc.indeg)

\* nx.topological_generations(G)
topological_generations(G) ==
    LET indeg == [n \in Range(G.nodes) |-> InDegree(G, n)]
        isZero(n) == indeg[n] = 0
    IN GenerationsFrom(G, SelectSeq(G.nodes, isZero), indeg)

\* nx.NetworkXUnfeasible: nodes are left with in-edges
Unfeasible(G) == Len(Flatten(topological_generations(G))) < Len(G.nodes)

\* the generations create_network_diagram lays out (<<>> for the spring layout)
create_network_diagram(cpm_df) ==
    LET G == BuildGraph(cpm_df, 1, EmptyGraph)
    IN IF Unfeasible(G) THEN <<>> ELSE topological_generations(G)

-----------------------------------------------------------------------------
(* The task store *)

Pids == {1, 2}

\* get_project_data_from_db
get_project_data_from_db(db, pid) == IF pid = 0 THEN <<>> ELSE db[pid]

\* a plausible slip: the INSERT without the DELETE before it
save_tasks_to_db_append(db, df, pid) ==
    [db EXCEPT ![pid] =
        @ \o [i \in 1..Len(df) |->
                [id |-> df[i].id, preds |-> df[i].preds, dur |-> df[i].dur,
                 status |-> df[i].status, es |-> df[i].es, ef |-> df[i].ef]]]

\* save_tasks_to_db: in one transaction, DELETE the project's rows and INSERT
\* the rows of df
save_tasks_to_db(db, df, pid) ==
    [db EXCEPT ![pid] =
        [i \in 1..Len(df) |->
            [id |-> df[i].id, preds |-> df[i].preds, dur |-> df[i].dur,
             status |-> df[i].status, es |-> df[i].es, ef |-> df[i].ef]]]

\* import_df_to_db, the projects table: INSERT ... ON CONFLICT (name) DO UPDATE
upsert_project(table, pid) == table \cup {pid}

\* import_df_to_db, the tasks table: the Status column defaults to "Not Started"
\* when the file has none; the project's rows are replaced
import_df_to_db(db, file, pid) ==
    [db EXCEPT ![pid] =
        [i \in 1..Len(file.rows) |->
            [file.rows[i] EXCEPT
                !.status = IF file.status_col THEN @ ELSE "Not Started"]]]

-----------------------------------------------------------------------------
(* The planner page, show_project_view: one action per script run *)

\* the run shows no error and presses no button
NoPress ==
    /\ msg' = "none"
    /\ dangling' = {}
    /\ pressed' = <<>>
    /\ cpm_called' = FALSE
    /\ cpm_arg' = <<>>

\* section 3 of the page, from the cpm_results the run ends with
Render ==
    /\ gantt_df' = RenderGantt(cpm_results')
    /\ generations' = create_network_diagram(cpm_results')

\* _process_uploaded_file: ids normalised, project replaced, session switched to it.
\* The files of the model carry every column the INSERT names; a file without
\* them is rejected with "Error processing file" and changes nothing.
ImportFile(files, pids) ==
    \E f \in files, pid \in pids :
        LET db2 == import_df_to_db(tasksDb, [f EXCEPT !.rows = NormaliseIds(f.rows)], pid)
        IN /\ projects' = upsert_project(projects, pid)
           /\ tasksDb' = db2
           /\ current_project_id' = pid
           /\ project_df' = get_project_data_from_db(db2, pid)
           /\ edited_df' = get_project_data_from_db(db2, pid)
           /\ cpm_results' = <<>>
           /\ NoPress
           /\ Render
           /\ UNCHANGED <<edits, checklistVars, normVars>>

\* _switch_project: another project is picked in "Select Project".  The session's
\* all_projects is re-read after every import of the session, and nothing else
\* creates a project, so the names offered are those of the projects table.
SwitchProject ==
    \E pid \in projects :
        /\ pid # current_project_id
        /\ current_project_id' = pid
        /\ project_df' = get_project_data_from_db(tasksDb, pid)
        /\ edited_df' = get_project_data_from_db(tasksDb, pid)
        /\ cpm_results' = <<>>
        /\ NoPress
        /\ Render
        /\ UNCHANGED <<projects, tasksDb, edits, checklistVars, normVars>>

\* the project that "Load Sample Data" fills, "Default Project"
DefaultProject == 1

\* the "Load Sample Data" button: the sample replaces the default project as it
\* is (its ids are not normalised), the session switches to it, st.rerun()
LoadSampleData(sample) ==
    LET db2 == import_df_to_db(tasksDb, sample, DefaultProject)
    IN /\ projects' = upsert_project(projects, DefaultProject)
       /\ tasksDb' = db2
       /\ current_project_id' = DefaultProject
       /\ project_df' = get_project_data_from_db(db2, DefaultProject)
       /\ edited_df' = get_project_data_from_db(db2, DefaultProject)
       /\ cpm_results' = <<>>
       /\ NoPress
       /\ Render
       /\ UNCHANGED <<edits, checklistVars, normVars>>

\* an edit in st.data_editor reruns the script; session state is untouched
Edited(df) ==
    /\ project_df # <<>>
    /\ edits < MaxEdits
    /\ df # edited_df
    /\ edited_df' = df
    /\ edits' = edits + 1
    /\ NoPress
    /\ UNCHANGED <<projects, tasksDb, current_project_id, project_df, cpm_results,
                   checklistVars, normVars>>
    /\ Render

EditTaskId(ids) ==
    \E i \in 1..Len(edited_df), v \in ids : Edited([edited_df EXCEPT ![i].id = v])

EditPredecessors(texts) ==
    \E i \in 1..Len(edited_df), v \in texts : Edited([edited_df EXCEPT ![i].preds = v])

EditDuration(durs) ==
    \E i \in 1..Len(edited_df), v \in durs : Edited([edited_df EXCEPT ![i].dur = v])

EditStatus ==
    \E i \in 1..Len(edited_df), v \in {"Not Started", "In Progress", "Complete"} :
        Edited([edited_df EXCEPT ![i].status = v])

\* num_rows="dynamic": a row is added (its id and predecessors still blank) or deleted
AddRow(durs) ==
    \E d \in durs :
        /\ Len(edited_df) < MaxRows
        /\ Edited(Append(edited_df, [id |-> NULL, preds |-> NULL, dur |-> d,
                                     status |-> "Not Started", es |-> NULLI, ef |-> NULLI]))

\* (one row is kept: what the scheduler answers for an empty table is not specified)
DeleteRow ==
    \E i \in 1..Len(edited_df) :
        /\ Len(edited_df) > 1
        /\ Edited(SubSeq(edited_df, 1, i - 1) \o SubSeq(edited_df, i + 1, Len(edited_df)))

\* a plausible slip: the schedule computed before project_df is replaced
CpmInputStale(old_df, e) == old_df

\* project_df = edited_df.copy(); calculate_cpm(project_df.copy())
CpmInput(old_df, e) == e

\* the "Calculate & Save Project Plan" button.  Durations are integers in the
\* model, so the ValueError branch ("Duration must be numeric") is not taken; any
\* other exception of calculate_cpm ends in "Unexpected error".
CalculateAndSave ==
    /\ project_df # <<>>
    /\ LET e == NormaliseIds(edited_df)
           v == Validate(e)
           arg == CpmInput(project_df, e)
       IN /\ pressed' = e
          /\ dangling' = _check_for_dangling_preds(e)
          /\ IF v # "valid"
             THEN /\ msg' = v
                  /\ cpm_called' = FALSE
                  /\ cpm_arg' = <<>>
                  /\ UNCHANGED <<tasksDb, project_df, edited_df, cpm_results>>
             ELSE /\ tasksDb' = save_tasks_to_db(tasksDb, e, current_project_id)
                  /\ project_df' = e
                  /\ edited_df' = e
                  /\ cpm_called' = TRUE
                  /\ cpm_arg' = arg
                  /\ IF CpmRaises(arg)
                     THEN msg' = "unexpected" /\ cpm_results' = cpm_results
                     ELSE msg' = "ok" /\ cpm_results' = calculate_cpm(arg)
    /\ Render
    /\ UNCHANGED <<projects, current_project_id, edits, checklistVars, normVars>>

-----------------------------------------------------------------------------
(* The daily checklist page, show_checklist_view *)

\* SQL comparisons are not true when an operand is NULL
SqlLe(a, b) == a # NULLI /\ b # NULLI /\ a <= b
SqlGe(a, b) == a # NULLI /\ b # NULLI /\ a >= b
SqlNe(a, b) == a # NULLS /\ b # NULLS /\ a # b

\* WHERE status != 'Complete' AND es <= :d AND ef >= :d
DueOn(row, d) == SqlNe(row.status, "Complete") /\ SqlLe(row.es, d) /\ SqlGe(row.ef, d)

TodayDf(rows, d) == LET due(r) == DueOn(r, d) IN SelectSeq(rows, due)

\* the page is opened on a project that has tasks, on schedule day d
OpenChecklist(pids) ==
    \E pid \in pids, d \in 1..MaxDay :
        /\ tasksDb[pid] # <<>>
        /\ checklist_pid' = pid
        /\ rel_day' = d
        /\ checklist_src' = tasksDb[pid]
        /\ today_df' = TodayDf(tasksDb[pid], d)
        /\ UNCHANGED <<appVars, normVars>>

\* a listed task is picked in "Mark completed": UPDATE ... SET status='Complete', rerun
MarkComplete ==
    \E k \in 1..Len(today_df) :
        LET rows == [i \in 1..Len(tasksDb[checklist_pid]) |->
                        IF tasksDb[checklist_pid][i].id = today_df[k].id
                        THEN [tasksDb[checklist_pid][i] EXCEPT !.status = "Complete"]
                        ELSE tasksDb[checklist_pid][i]]
        IN /\ tasksDb' = [tasksDb EXCEPT ![checklist_pid] = rows]
           /\ checklist_src' = rows
           /\ today_df' = TodayDf(rows, rel_day)
           /\ UNCHANGED <<projects, checklist_pid, rel_day, current_project_id, project_df, edited_df,
                          cpm_results, msg, dangling, pressed, cpm_called, cpm_arg,
                          gantt_df, generations, edits, normVars>>

-----------------------------------------------------------------------------
(* The normaliser applied to a raw identifier, and again to its result *)

NormaliseOnce ==
    /\ nStep = 0
    /\ nOut1' = _normalise_id(nIn)
    /\ nStep' = 1
    /\ UNCHANGED <<nIn, nOut2, appVars, checklistVars>>

NormaliseTwice ==
    /\ nStep = 1
    /\ nOut2' = _normalise_id(nOut1)
    /\ nStep' = 2
    /\ UNCHANGED <<nIn, nOut1, appVars, checklistVars>>

-----------------------------------------------------------------------------
(* Inputs *)

Row(id, preds, dur, status, es, ef) ==
    [id |-> id, preds |-> preds, dur |-> dur, status |-> status, es |-> es, ef |-> ef]

\* A(2), B(3) after A, C(1) after B
ChainFile ==
    [status_col |-> FALSE,
     rows |-> << Row(<<"A">>, NULL, 2, NULLS, NULLI, NULLI),
                 Row(<<"B">>, <<"A">>, 3, NULLS, NULLI, NULLI),
                 Row(<<"C">>, <<"B">>, 1, NULLS, NULLI, NULLI) >>]

\* three tasks that do not depend on each other, exported with stale ES / EF
IndependentFile ==
    [status_col |-> TRUE,
     rows |-> << Row(<<"a">>, <<>>, 1, "Not Started", 1, 2),
                 Row(<<"B">>, <<>>, 2, "In Progress", 1, 3),
                 Row(<<"C">>, <<>>, 1, "Not Started", 3, 4) >>]

PlannerFiles == {ChainFile, IndependentFile}

\* utils.get_sample_data(): a small plan with Task ID, Predecessors and Duration
\* columns and no Status column
get_sample_data ==
    [status_col |-> FALSE,
     rows |-> << Row(<<"A">>, NULL, 1, NULLS, NULLI, NULLI),
                 Row(<<"B">>, <<"A">>, 2, NULLS, NULLI, NULLI) >>]

\* predecessor cells typed while several projects are open
ProjectPredTexts == { <<>>, <<"C">> }

PredTexts ==
    { <<>>, <<"C">>, <<"A", ",", "B">>, <<"b", ";", " ", "c">>, <<"x", " ", "A">> }

RawIds == { <<" ">>, <<"a">>, <<"X">> }

Durations == {1, 4}

\* a project under way: statuses and schedule windows as imported
ProgressFile ==
    [status_col |-> TRUE,
     rows |-> << Row(<<"A">>, NULL, 2, "Complete", 1, 3),
                 Row(<<"B">>, <<"A">>, 2, "In Progress", 3, 5),
                 Row(<<"C">>, <<"A">>, 1, NULLS, 3, 4),
                 Row(<<"D">>, <<"B">>, 1, "Not Started", NULLI, NULLI) >>]

ChecklistFiles == {ProgressFile, IndependentFile}

-----------------------------------------------------------------------------
(* Specifications *)

InitApp ==
    /\ projects = {}
    /\ tasksDb = [p \in Pids |-> <<>>]
    /\ current_project_id = 0
    /\ project_df = <<>>
    /\ edited_df = <<>>
    /\ cpm_results = <<>>
    /\ msg = "none"
    /\ dangling = {}
    /\ pressed = <<>>
    /\ cpm_called = FALSE
    /\ cpm_arg = <<>>
    /\ gantt_df = <<>>
    /\ generations = <<>>
    /\ edits = 0
    /\ checklist_pid = 0
    /\ rel_day = 0
    /\ checklist_src = <<>>
    /\ today_df = <<>>

InitNormIdle ==
    /\ nIn = <<>>
    /\ nOut1 = <<>>
    /\ nOut2 = <<>>
    /\ nStep = 0

\* the planner: import, edit, calculate and save
Init == InitApp /\ InitNormIdle

Next ==
    \/ ImportFile(PlannerFiles, {1})
    \/ EditTaskId(RawIds)
    \/ EditPredecessors(PredTexts)
    \/ EditDuration(Durations)
    \/ AddRow(Durations)
    \/ DeleteRow
    \/ CalculateAndSave

Spec == Init /\ [][Next]_vars

\* the checklist beside the planner
NextChecklist ==
    \/ ImportFile(ChecklistFiles, {1})
    \/ EditStatus
    \/ CalculateAndSave
    \/ OpenChecklist({1})
    \/ MarkComplete

SpecChecklist == Init /\ [][NextChecklist]_vars

\* several projects in one session: import, sample, switch, edit, calculate and save
NextProjects ==
    \/ ImportFile(PlannerFiles, Pids)
    \/ LoadSampleData(get_sample_data)
    \/ SwitchProject
    \/ EditPredecessors(ProjectPredTexts)
    \/ DeleteRow
    \/ CalculateAndSave

SpecProjects == Init /\ [][NextProjects]_vars

\* the normaliser on every raw identifier
InitNorm ==
    /\ InitApp
    /\ nIn \in RawStrings
    /\ nOut1 = <<>>
    /\ nOut2 = <<>>
    /\ nStep = 0

NextNorm == NormaliseOnce \/ NormaliseTwice

SpecNorm == InitNorm /\ [][NextNorm]_vars

-----------------------------------------------------------------------------
(* Properties *)

Rows(df) == 1..Len(df)

\* the rows that row i depends on, directly or through other rows
RECURSIVE Ancestors(_, _, _)
Ancestors(df, S, n) ==
    IF n = 0 THEN S
    ELSE Ancestors(df, S \cup UNION {PredIdx(df, j) : j \in S}, n - 1)

DependsOnItself(df, i) == i \in Ancestors(df, PredIdx(df, i), Len(df))

HasDependencyCycle(df) == \E i \in Rows(df) : DependsOnItself(df, i)

\* a successful press happened in this run
Saved == msg = "ok"

\* C1: a task list with a dependency cycle that passes the empty, duplicate and
\* dangling checks is answered with a distinct cyclic-dependency error, and
\* calculate_cpm is not invoked on it.
C1_CycleRejectedBeforeScheduling ==
    (pressed # <<>> /\ Validate(pressed) = "valid" /\ HasDependencyCycle(pressed))
        => (msg = "cyclic" /\ ~cpm_called)

\* C2: after a successful press the es and ef stored for each task of the
\* project are the earlyStart and earlyFinish computed in that press.
C2_PersistedScheduleIsComputed ==
    Saved =>
        /\ Len(tasksDb[current_project_id]) = Len(cpm_results)
        /\ \A i \in Rows(cpm_results) :
              /\ tasksDb[current_project_id][i].es = cpm_results[i].ES
              /\ tasksDb[current_project_id][i].ef = cpm_results[i].EF

\* C3: after a successful press every task starts on day 1 when it has no
\* predecessors and otherwise at the latest earlyFinish of its predecessors,
\* finishes at earlyStart + duration, and never starts before a predecessor
\* has finished.
C3_ForwardPass ==
    Saved =>
        /\ Len(cpm_results) = Len(project_df)
        /\ \A t \in Rows(project_df) :
              LET P == PredIdx(project_df, t)
              IN /\ cpm_results[t].ES =
                        IF P = {} THEN 1 ELSE Max({cpm_results[p].EF : p \in P})
                 /\ cpm_results[t].EF = cpm_results[t].ES + project_df[t].dur
                 /\ \A p \in P : cpm_results[t].ES >= cpm_results[p].EF

\* a join task whose predecessors finish on different days was scheduled
C3_JoinScheduled ==
    /\ Saved
    /\ \E t \in Rows(project_df) :
          \E p, q \in PredIdx(project_df, t) :
              /\ cpm_results[p].EF < cpm_results[q].EF
              /\ cpm_results[t].ES = cpm_results[q].EF

\* C4: after a successful press every task's lateFinish is the project finish
\* T when it has no successors and otherwise the earliest lateStart of its
\* successors, lateStart = lateFinish - duration, float = lateStart -
\* earlyStart, and the task is flagged (and coloured) critical iff its float is 0.
C4_BackwardPass ==
    Saved =>
        LET T == Max({cpm_results[i].EF : i \in Rows(cpm_results)})
        IN \A t \in Rows(project_df) :
              LET S == SuccIdx(project_df, t)
              IN /\ cpm_results[t].LF =
                        IF S = {} THEN T ELSE Min({cpm_results[s].LS : s \in S})
                 /\ cpm_results[t].LS = cpm_results[t].LF - project_df[t].dur
                 /\ cpm_results[t].Float = cpm_results[t].LS - cpm_results[t].ES
                 /\ (cpm_results[t].OnCriticalPath = "Yes") <=> (cpm_results[t].Float = 0)
                 /\ (gantt_df[t].GanttColor[1] = "Critical") <=> (cpm_results[t].Float = 0)

\* a task with two successors of different lateStart, and a task with slack
C4_ForkWithSlackScheduled ==
    /\ Saved
    /\ \E t \in Rows(project_df) :
          \E r, s \in SuccIdx(project_df, t) : cpm_results[r].LS < cpm_results[s].LS
    /\ \E t \in Rows(project_df) : cpm_results[t].Float > 0
    /\ \E t \in Rows(project_df) : cpm_results[t].Float = 0

\* the table of the press as typed: it is left in the editor when validation fails
SomeIdEmpty == \E i \in Rows(edited_df) : _normalise_id(edited_df[i].id) = <<>>

SomeIdsCoincide ==
    \E i, j \in Rows(edited_df) :
        i # j /\ _normalise_id(edited_df[i].id) = _normalise_id(edited_df[j].id)

\* the non-separator runs of a predecessor text
IsToken(s, a, b) ==
    /\ a <= b
    /\ \A k \in a..b : ~IsSep(s[k])
    /\ (a = 1 \/ IsSep(s[a - 1]))
    /\ (b = Len(s) \/ IsSep(s[b + 1]))

TokensOf(s) ==
    IF s = NULL THEN {}
    ELSE {SubSeq(s, ab[1], ab[2]) :
            ab \in {x \in (1..Len(s)) \X (1..Len(s)) : IsToken(s, x[1], x[2])}}

\* the normalised references of the table that name no task
Unresolved(df) ==
    {t \in {_normalise_id(tok) : tok \in UNION {TokensOf(df[i].preds) : i \in Rows(df)}} :
        t # <<>> /\ \A i \in Rows(df) : df[i].id # t}

\* C5: validation reports the first failing category in the order empty id,
\* duplicate id, dangling predecessor: an empty normalised id gives the empty-id
\* error whatever else is wrong, and ids that normalise to the same string give
\* the duplicate error even when references dangle.
C5_ValidationOrder ==
    pressed # <<>> =>
        /\ SomeIdEmpty <=> (msg = "empty")
        /\ (~SomeIdEmpty /\ SomeIdsCoincide) <=> (msg = "duplicate")
        /\ (~SomeIdEmpty /\ ~SomeIdsCoincide /\ Unresolved(pressed) # {}) <=> (msg = "dangling")

\* the duplicate error for ids that differ as typed, while a reference dangles
C5_DuplicateBeforeDangling ==
    /\ msg = "duplicate"
    /\ Unresolved(pressed) # {}
    /\ \E i, j \in Rows(edited_df) :
          /\ edited_df[i].id # edited_df[j].id
          /\ _normalise_id(edited_df[i].id) = _normalise_id(edited_df[j].id)

\* C6: the dangling-predecessor check returns exactly the non-empty normalised
\* predecessor tokens of all tasks that equal no normalised task id: all of
\* them, none that resolves, and none at all iff every reference resolves.
C6_DanglingExact ==
    pressed # <<>> =>
        /\ dangling = Unresolved(pressed)
        /\ (dangling = {}) <=>
              \A i \in Rows(pressed) : \A tok \in TokensOf(pressed[i].preds) :
                  _normalise_id(tok) = <<>> \/ _normalise_id(tok) \in TaskIds(pressed)

\* two unresolved references are reported together
C6_TwoDanglingReported ==
    /\ msg = "dangling"
    /\ Cardinality(dangling) >= 2

RowOf(df, id) == CHOOSE i \in Rows(df) : df[i].id = id

\* C7: generation 0 of the diagram is exactly the tasks without predecessors,
\* and inside every generation the nodes stand in the order of their rows.
C7_LayersInRowOrder ==
    generations # <<>> =>
        /\ Range(generations[1]) =
              {cpm_results[i].id : i \in {j \in Rows(cpm_results) : PredIdx(cpm_results, j) = {}}}
        /\ \A g \in 1..Len(generations) :
              \A j, k \in 1..Len(generations[g]) :
                  j < k => RowOf(cpm_results, generations[g][j])
                              < RowOf(cpm_results, generations[g][k])

\* C8: the checklist lists a task for day d iff its status is not Complete and
\* es <= d and ef >= d.
C8_ListedIffDue ==
    rel_day # 0 =>
        \A i \in Rows(checklist_src) :
            LET r == checklist_src[i]
            IN (r \in Range(today_df)) <=>
                  /\ r.status # "Complete"
                  /\ r.es # NULLI /\ r.es <= rel_day
                  /\ r.ef # NULLI /\ r.ef >= rel_day

\* the schedule days a Gantt bar covers: the dates from Start up to Finish
BarDays(bar) == {k + 1 : k \in bar.Start..(bar.Finish - 1)}

\* the schedule days on which the checklist predicate holds for a window
DueDays(es, ef, horizon) ==
    {d \in 0..horizon :
        DueOn([status |-> "Not Started", es |-> es, ef |-> ef], d)}

\* C9: for every scheduled task the days on which the checklist predicate holds
\* are the days its Gantt bar covers, duration days from earlyStart, and a task
\* is not due on the day a successor starts at its earlyFinish.
C9_OneDayCountConvention ==
    Saved =>
        LET horizon == Max({cpm_results[i].EF : i \in Rows(cpm_results)}) + 1
        IN \A t \in Rows(cpm_results) :
              /\ DueDays(cpm_results[t].ES, cpm_results[t].EF, horizon) = BarDays(gantt_df[t])
              /\ BarDays(gantt_df[t]) =
                    cpm_results[t].ES..(cpm_results[t].ES + cpm_results[t].dur - 1)
              /\ \A s \in SuccIdx(cpm_results, t) :
                    cpm_results[s].ES = cpm_results[t].EF =>
                        DueDays(cpm_results[t].ES, cpm_results[t].EF, horizon)
                            \cap DueDays(cpm_results[s].ES, cpm_results[s].EF, horizon) = {}

\* C10: normalising a normalised identifier changes nothing.
C10_NormaliseIdempotent == nStep = 2 => nOut2 = nOut1

-----------------------------------------------------------------------------
(* The press and what it leaves behind *)

\* the task columns of a table: identifier, predecessors, duration
TaskTable(df) ==
    [i \in Rows(df) |-> [id |-> df[i].id, preds |-> df[i].preds, dur |-> df[i].dur]]

\* res is a schedule of the tasks in rows
IsScheduleOf(res, rows) == res # <<>> /\ TaskTable(res) = TaskTable(rows)

\* the run pressed the button and showed an error
PressFailed == pressed # <<>> /\ msg \notin {"ok", "none"}

\* C11: a press that fails validation (empty id, duplicate id, dangling
\* predecessor) changes neither the stored tasks nor project_df nor cpm_results
\* and calls neither save_tasks_to_db nor calculate_cpm; and no press that ends
\* in an error, a failure of the scheduler included, leaves the project with
\* stored tasks that differ from before and have no matching schedule.
C11_FailedPressLeavesNoUnscheduledTasks ==
    [][ PressFailed' =>
          /\ msg' \in {"empty", "duplicate", "dangling"} =>
                /\ tasksDb' = tasksDb
                /\ project_df' = project_df
                /\ cpm_results' = cpm_results
                /\ ~cpm_called'
          /\ \/ tasksDb'[current_project_id'] = tasksDb[current_project_id]
             \/ IsScheduleOf(cpm_results', tasksDb'[current_project_id']) ]_vars

\* the run called save_tasks_to_db (the press passed validation)
SaveCalled == pressed # <<>> /\ cpm_called

\* C12: save_tasks_to_db(df, pid) leaves project pid with exactly the rows of
\* df, in order, and none of its earlier rows; the tasks of every other project
\* and the projects table are as before.
C12_SaveReplacesOneProject ==
    [][ SaveCalled' =>
          /\ tasksDb'[current_project_id] = pressed'
          /\ \A p \in Pids \ {current_project_id} : tasksDb'[p] = tasksDb[p]
          /\ projects' = projects ]_vars

\* a table cut down to one row was saved while another project holds tasks
C12_ShorterTableSavedBesideAnotherProject ==
    /\ SaveCalled
    /\ Len(pressed) = 1
    /\ \E p \in projects \ {current_project_id} : Len(tasksDb[p]) > 1

\* C13: in every state of the session cpm_results is None or the schedule
\* computed from the project_df the session holds (so after a switch, an import
\* or a sample load it is None, and after a press, whatever its outcome, it is
\* not the schedule of an earlier table).
C13_ResultsAreOfProjectDf ==
    cpm_results # <<>> =>
        /\ ~CpmRaises(project_df)
        /\ cpm_results = calculate_cpm(project_df)

\* row i of the current project was completed in the store after the session
\* loaded it (only the checklist does that), and the user has not edited its
\* Status cell
CompletedBehindSession(i) ==
    LET row == tasksDb[current_project_id][i]
    IN /\ i \in Rows(project_df) /\ project_df[i].id = row.id
       /\ i \in Rows(edited_df) /\ edited_df[i].id = row.id
       /\ row.status = "Complete"
       /\ project_df[i].status # "Complete"
       /\ edited_df[i].status = project_df[i].status

\* C14: a task marked Complete through the checklist is still Complete in the
\* store after a later "Calculate & Save" of a planner session that loaded the
\* project before the checklist update, unless the user edited that task's
\* status in the planner.
C14_ChecklistCompletionSurvivesSave ==
    [][ SaveCalled' =>
          \A i \in Rows(tasksDb[current_project_id]) :
              CompletedBehindSession(i) =>
                  /\ i \in Rows(tasksDb'[current_project_id])
                  /\ tasksDb'[current_project_id][i].status = "Complete" ]_vars

=============================================================================
